---------------------------- MODULE Spec2Model ----------------------------
(***************************************************************************)
(* A model of the read side of the ZFS implementation in src/src:          *)
(*   arcache.rs   the adaptive replacement cache (Mru, Mfu, ArCache)       *)
(*   zio.rs       the raw sector reader, read_block and the uberblock scan *)
(*   uberblock.rs the uberblock record and its magic check                 *)
(*   lzjb.rs      the LZJB encoder and decoder                             *)
(* Each component has its own specification (SpecArc, SpecMfu, SpecUber,   *)
(* SpecBlk, SpecLzjb, SpecDec, SpecIo) over the one set of variables; a    *)
(* specification leaves the variables of the other components idle.        *)
(***************************************************************************)
EXTENDS Integers, Sequences, FiniteSets, TLC

VARIABLES
    mru_map,     \* Mru.map: DVAddr -> block, as a function on its keys
    mru_queue,   \* Mru.queue: front (newest) first, back (oldest) last
    mru_used,    \* Mru.used
    mfu_map,     \* Mfu.map: DVAddr -> <<use count, block>>
    mfu_used,    \* Mfu.used
    last,        \* what the latest ArCache::read did (observation)
    prev,        \* address and success of the read before it (observation)
    ring,        \* the uberblock ring as Reader::read returns it, slot by slot
    uber_res,    \* what Reader::uber returned
    bp,          \* the block pointer handed to Reader::read_block
    blk_res,     \* what Reader::read_block returned
    enc,         \* LzjbEncoder::read: its locals, source and destination
    dec,         \* LzjbDecoder::read: its locals, source and destination
    io           \* the device under a Reader whose seeks, reads and writes can fail

arc_vars   == <<mru_map, mru_queue, mru_used, mfu_map, mfu_used, last, prev>>
uber_vars  == <<ring, uber_res>>
blk_vars   == <<bp, blk_res>>
lzjb_vars  == <<enc, dec>>
dev_vars   == <<io>>
vars       == <<mru_map, mru_queue, mru_used, mfu_map, mfu_used, last, prev,
                ring, uber_res, bp, blk_res, enc, dec, io>>

Idle == [pc |-> "idle"]

(***************************************************************************)
(* Bounds of the model.                                                    *)
(***************************************************************************)
\* how many distinct device addresses the cache is read at
NumAddrs == 5
\* reads of a frequency-tier entry are explored up to this use count
MaxFreq == 1
\* how many slots of the uberblock ring hold something other than zeroes
NumProbes == 3
\* the encoder is run on every input up to this length,
MaxShort == 3
\* and on repeating inputs of MATCH_MAX up to MATCH_MAX + MaxExtra bytes
MaxExtra == 2
\* the decoder is run on every source up to this length
MaxDecLen == 4
\* into destinations up to this length
MaxDecCap == 3
\* read_block is called with the compression codes 0..MaxComp
MaxComp == 4
\* Mfu::cache_block is run on tiers over this many addresses,
NumMfuAddrs == 3
\* up to this value of Mfu.used
MaxMfuUsed == 800
\* the device whose operations can fail has this many sectors
NumIoSectors == 2

(***************************************************************************)
(* Device addresses and the raw reader (zio.rs).                           *)
(***************************************************************************)
SectorSize == 512

\* asize of the k-th address read; sectors are distinct, so are the keys
AsizeTable == <<400, 300, 300, 1, 1001, 1000, 600, 2>>

DVAddrs == { [sector |-> k, asize |-> AsizeTable[k]] : k \in 1..NumAddrs }

\* the device: the bytes at the start of a sector, the rest of it zero.
\* Sectors 101.. hold LZJB streams: one that decodes to 512 bytes (a literal
\* and matches of MATCH_MAX bytes at offset 1), one whose first item is a
\* match at offset 5, and one that is all zeroes; any other sector holds a
\* byte of its own.  The device is never written in this model.
StreamTable ==
    << <<254, 7, 252, 1, 252, 1, 252, 1, 252, 1, 252, 1, 252, 1, 252, 1, 255, 252, 1>>,
       <<1, 0, 5>>,
       <<>> >>

DiskHead(sector) ==
    IF sector - 100 \in 1..Len(StreamTable)
    THEN StreamTable[sector - 100]
    ELSE <<1 + (sector % 255)>>

\* Reader::read(start, length): a buffer of length*512 bytes filled from the
\* device at sector start
Reader_read(start, length) ==
    [len |-> length * SectorSize, head |-> DiskHead(start)]

\* Reader::read_dva
Reader_read_dva(dva) == Reader_read(dva.sector, dva.asize)

(***************************************************************************)
(* Mru (arcache.rs).                                                       *)
(***************************************************************************)
\* Mru::new: size
MruSize == 1000

MapRemove(map, k) == [x \in (DOMAIN map) \ {k} |-> map[x]]

MapInsert(map, k, v) == [x \in (DOMAIN map) \cup {k} |-> IF x = k THEN v ELSE map[x]]

EmptyMap == [x \in {} |-> 0]

NeedsRoomOffByOne(used, asize) == used + asize > MruSize + 1

\* the loop condition of Mru::cache_block
NeedsRoom(used, asize) == used + asize > MruSize

QueueExhaustedEarly(queue) == Len(queue) <= 1

\* VecDeque::pop_back returns None
QueueExhausted(queue) == queue = <<>>

PopBackNewest(queue) == [dva |-> queue[1], rest |-> SubSeq(queue, 2, Len(queue))]

\* VecDeque::pop_back on a non-empty queue
PopBack(queue) == [dva |-> queue[Len(queue)], rest |-> SubSeq(queue, 1, Len(queue) - 1)]

\* the eviction loop of Mru::cache_block on m = [map, queue, used, popped, err]
RECURSIVE MakeRoom(_, _)
MakeRoom(m, asize) ==
    IF ~NeedsRoom(m.used, asize) THEN m
    ELSE IF QueueExhausted(m.queue) THEN [m EXCEPT !.err = TRUE]
    ELSE LET p == PopBack(m.queue)
         IN  MakeRoom([map    |-> MapRemove(m.map, p.dva),
                       queue  |-> p.rest,
                       used   |-> m.used - p.dva.asize,
                       popped |-> Append(m.popped, p.dva),
                       err    |-> FALSE], asize)

MruInsertKeepUsed(m, dva, block) ==
    [m EXCEPT !.map = MapInsert(m.map, dva, block), !.queue = <<dva>> \o m.queue]

\* the insertion at the end of Mru::cache_block
MruInsert(m, dva, block) ==
    [m EXCEPT !.used = m.used + dva.asize,
              !.map = MapInsert(m.map, dva, block),
              !.queue = <<dva>> \o m.queue]

\* Mru::cache_block: the tier afterwards and the result
Mru_cache_block(map, queue, used, dva, block) ==
    LET m == MakeRoom([map |-> map, queue |-> queue, used |-> used,
                       popped |-> <<>>, err |-> FALSE], dva.asize)
    IN  IF m.err
        THEN [m |-> m, ok |-> FALSE, ret |-> "No more ARC MRU items to free"]
        ELSE LET n == MruInsert(m, dva, block)
             IN  [m |-> n, ok |-> TRUE, ret |-> n.map[dva]]

(***************************************************************************)
(* ArCache::read (arcache.rs).                                             *)
(***************************************************************************)
FreqNextNoCeiling(freq) == freq + 1

\* the use count after a frequency-tier hit
FreqNext(freq) == IF freq > 1000 THEN 0 ELSE freq + 1

PromoteKeep(map, dva) == map

MfuPromotedLost(map, dva, block) == map

MfuPromotedBlank(map, dva, block) ==
    MapInsert(map, dva, <<0, [len |-> block.len, head |-> <<>>]>>)

MfuPromotedAlone(map, dva, block) == MapInsert(EmptyMap, dva, <<0, block>>)

\* mfu.map.insert(dva, (0, block)) of a recency-tier hit
MfuPromoted(map, dva, block) == MapInsert(map, dva, <<0, block>>)

\* mru.map.remove(dva) of a recency-tier hit
Promote(map, dva) == MapRemove(map, dva)

NoRead == [dva |-> [sector |-> 0, asize |-> 0], kind |-> "none", ok |-> FALSE,
           disk |-> FALSE, popped |-> <<>>, ret |-> 0]

\* what every call of ArCache::read leaves alone, and the record of the call
\* before it
ArcFrame ==
    /\ prev' = [dva |-> last.dva, ok |-> last.ok]
    /\ UNCHANGED <<uber_vars, blk_vars, lzjb_vars, dev_vars>>

\* first branch: the address is in the recency tier
ArcMruHit(dva) ==
    /\ dva \in DOMAIN mru_map
    /\ LET block == mru_map[dva]
       IN  /\ mru_map' = Promote(mru_map, dva)
           /\ mfu_map' = MfuPromoted(mfu_map, dva, block)
           /\ last' = [dva |-> dva, kind |-> "mru_hit", ok |-> TRUE,
                       disk |-> FALSE, popped |-> <<>>, ret |-> block]
    /\ UNCHANGED <<mru_queue, mru_used, mfu_used>>
    /\ ArcFrame

\* second branch: the address is in the frequency tier
ArcMfuHitAny(dva) ==
    /\ dva \notin DOMAIN mru_map
    /\ dva \in DOMAIN mfu_map
    /\ mfu_map' = [mfu_map EXCEPT ![dva] = <<FreqNext(mfu_map[dva][1]), mfu_map[dva][2]>>]
    /\ last' = [dva |-> dva, kind |-> "mfu_hit", ok |-> TRUE,
                disk |-> FALSE, popped |-> <<>>, ret |-> mfu_map[dva][2]]
    /\ UNCHANGED <<mru_map, mru_queue, mru_used, mfu_used>>
    /\ ArcFrame

\* third branch: a miss, read from the device and admitted to the recency tier
ArcMiss(dva) ==
    /\ dva \notin DOMAIN mru_map
    /\ dva \notin DOMAIN mfu_map
    /\ LET block == Reader_read(dva.sector, dva.asize)
           r == Mru_cache_block(mru_map, mru_queue, mru_used, dva, block)
       IN  /\ mru_map' = r.m.map
           /\ mru_queue' = r.m.queue
           /\ mru_used' = r.m.used
           /\ last' = [dva |-> dva, kind |-> "miss", ok |-> r.ok,
                       disk |-> TRUE, popped |-> r.m.popped, ret |-> r.ret]
    /\ UNCHANGED <<mfu_map, mfu_used>>
    /\ ArcFrame

\* the second branch, explored up to the use count MaxFreq
ArcMfuHit(dva) ==
    /\ dva \in DOMAIN mfu_map
    /\ mfu_map[dva][1] < MaxFreq
    /\ ArcMfuHitAny(dva)

ArCache_read(dva) == ArcMruHit(dva) \/ ArcMfuHit(dva) \/ ArcMiss(dva)

\* ArCache::new
InitArcVars ==
    /\ mru_map = EmptyMap
    /\ mru_queue = <<>>
    /\ mru_used = 0
    /\ mfu_map = EmptyMap
    /\ mfu_used = 0
    /\ last = NoRead
    /\ prev = [dva |-> NoRead.dva, ok |-> FALSE]

IdleUber == ring = <<>> /\ uber_res = Idle
IdleBlk  == bp = Idle /\ blk_res = Idle
IdleLzjb == enc = Idle /\ dec = Idle
IdleDev  == io = Idle

InitArc == InitArcVars /\ IdleUber /\ IdleBlk /\ IdleLzjb /\ IdleDev

NextArc == \E dva \in DVAddrs : ArCache_read(dva)

SpecArc == InitArc /\ [][NextArc]_vars

\* the cache read at one address over and over, with no bound on the use
\* count: the count runs through all its values
FreqAddrs == { [sector |-> k, asize |-> AsizeTable[k]] : k \in 1..1 }

NextFreq ==
    \E dva \in FreqAddrs : ArcMiss(dva) \/ ArcMruHit(dva) \/ ArcMfuHitAny(dva)

SpecFreq == InitArc /\ [][NextFreq]_vars

(***************************************************************************)
(* Mfu::cache_block (arcache.rs).  ArCache::read never calls it; it is     *)
(* run here on every frequency tier that reads can build: any set of       *)
(* addresses, each with a use count in 0..1001, and Mfu.used still 0.      *)
(***************************************************************************)
MfuAddrs == { [sector |-> k, asize |-> AsizeTable[k]] : k \in 1..NumMfuAddrs }
MfuFreqs == {0, 1, 2, 1001}

\* the keys the scan can settle on: lowest_freq starts at !0, above every
\* use count, and is replaced on a strictly lower count only, so the scan
\* ends on the first key of lowest count in the map's iteration order, which
\* can be any key of lowest count
LowestKeys(map) ==
    {a \in DOMAIN map : \A b \in DOMAIN map : map[a][1] <= map[b][1]}

\* Mfu::cache_block(dva, block) when the scan settles on lowest: try! returns
\* the Err of an empty scan before anything is changed
Mfu_cache_block(map, used, dva, block, lowest) ==
    IF DOMAIN map = {}
    THEN [map |-> map, used |-> used, ok |-> FALSE,
          ret |-> "No valid DVA found.", removed |-> <<>>]
    ELSE [map |-> MapInsert(MapRemove(map, lowest), dva, <<2, block>>),
          used |-> used + dva.asize, ok |-> TRUE,
          ret |-> block, removed |-> <<lowest>>]

MfuCacheBlock ==
    \E dva \in MfuAddrs :
      \E lowest \in (IF DOMAIN mfu_map = {} THEN {dva} ELSE LowestKeys(mfu_map)) :
        LET r == Mfu_cache_block(mfu_map, mfu_used, dva,
                                 Reader_read(dva.sector, dva.asize), lowest)
        IN  /\ r.used <= MaxMfuUsed
            /\ mfu_map' = r.map
            /\ mfu_used' = r.used
            /\ last' = [dva |-> dva, kind |-> "mfu_admit", ok |-> r.ok,
                        disk |-> FALSE, popped |-> r.removed, ret |-> r.ret]
            /\ UNCHANGED <<mru_map, mru_queue, mru_used>>
            /\ ArcFrame

InitMfu ==
    /\ \E S \in SUBSET MfuAddrs : \E f \in [S -> MfuFreqs] :
          mfu_map = [a \in S |-> <<f[a], Reader_read(a.sector, a.asize)>>]
    /\ mfu_used = 0
    /\ mru_map = EmptyMap /\ mru_queue = <<>> /\ mru_used = 0
    /\ last = NoRead
    /\ prev = [dva |-> NoRead.dva, ok |-> FALSE]
    /\ IdleUber /\ IdleBlk /\ IdleLzjb /\ IdleDev

NextMfu == MfuCacheBlock

SpecMfu == InitMfu /\ [][NextMfu]_vars

(***************************************************************************)
(* Properties of the cache, checked under SpecArc.                         *)
(***************************************************************************)
RECURSIVE SumAsize(_)
SumAsize(S) ==
    IF S = {} THEN 0
    ELSE LET a == CHOOSE x \in S : TRUE IN a.asize + SumAsize(S \ {a})

MruHeld == DOMAIN mru_map
\* the addresses in the eviction queue
Queued == {mru_queue[i] : i \in 1..Len(mru_queue)}
MfuHeld == DOMAIN mfu_map

\* C1: no address is a key of the recency-tier map and of the frequency-tier
\* map at the same time.
C1_TierExclusive == MruHeld \cap MfuHeld = {}

\* a promotion just happened while another address stays in the recency tier
C1_Witness ==
    /\ last.kind = "mru_hit"
    /\ last.dva \in MfuHeld
    /\ MruHeld # {}
    /\ Cardinality(MfuHeld) >= 2

\* C2: the asize of the addresses held in the recency-tier map sums to at most
\* the capacity, and so does the tier's used total.
C2_MruCapacity ==
    /\ SumAsize(MruHeld) <= MruSize
    /\ mru_used <= MruSize

\* an admission that had to evict left the tier full to the last unit
C2_Witness ==
    /\ last.kind = "miss"
    /\ last.ok
    /\ last.popped # <<>>
    /\ mru_used = MruSize
    /\ SumAsize(MruHeld) = MruSize

SameAddressTwice == last.kind # "none" /\ prev.dva = last.dva

Promoted(dva) == dva \in MfuHeld /\ dva \notin MruHeld

\* C3 as stated: whenever the same address is read twice in succession, the
\* second read makes no physical storage access and leaves the address in the
\* frequency tier and not in the recency tier.
C3_RereadPromotes_Original ==
    SameAddressTwice => (~last.disk /\ Promoted(last.dva))

\* C3 as amended: the same, for a second read that follows a successful first
\* read of the address; a first read that fails (the address misses and its
\* asize exceeds the capacity) caches nothing, and the second read goes to
\* storage again.
C3_RereadPromotes ==
    (SameAddressTwice /\ prev.ok) => (~last.disk /\ Promoted(last.dva))

\* the second of two successive reads found the address in the recency tier
\* and promoted it
C3_Witness ==
    /\ SameAddressTwice
    /\ prev.ok
    /\ last.kind = "mru_hit"
    /\ Promoted(last.dva)

\* C9: a read fails only as a miss whose asize exceeds the capacity, every
\* such miss fails with the out-of-evictable-items error, and after it the
\* recency tier holds nothing, its used total is 0, and the address is in
\* neither tier.
C9_CacheExhausted ==
    /\ (last.kind \in {"mru_hit", "mfu_hit"}) => last.ok
    /\ (last.kind = "miss") =>
          /\ (~last.ok) <=> (last.dva.asize > MruSize)
          /\ (~last.ok) =>
                /\ last.ret = "No more ARC MRU items to free"
                /\ MruHeld = {}
                /\ mru_queue = <<>>
                /\ mru_used = 0
                /\ last.dva \notin MfuHeld

\* a failed admission that emptied a tier holding several entries
C9_Witness ==
    /\ last.kind = "miss"
    /\ ~last.ok
    /\ Len(last.popped) >= 2
    /\ mru_queue = <<>>

\* position of an address in the eviction queue (0 when it is not queued)
QueuePos(queue, dva) ==
    IF \E i \in 1..Len(queue) : queue[i] = dva
    THEN CHOOSE i \in 1..Len(queue) : queue[i] = dva
    ELSE 0

\* the held address nearest the old end of the queue
OldestHeld(queue, held) ==
    CHOOSE a \in held : \A b \in held : QueuePos(queue, b) <= QueuePos(queue, a)

\* a successful admission by this step
Admits == last'.kind = "miss" /\ last'.ok /\ mru_queue' # mru_queue

\* C6, the order: an admission removes a run of addresses from the old end of
\* the queue, oldest first, and no more of them than the new block needs.
C6_OldestFirst ==
    [][Admits =>
        LET n == Len(mru_queue)
            k == Len(last'.popped)
        IN  /\ k <= n
            /\ \A i \in 1..k : last'.popped[i] = mru_queue[n + 1 - i]
            /\ mru_queue' = <<last'.dva>> \o SubSeq(mru_queue, 1, n - k)
            /\ k > 0 => NeedsRoom(mru_used - SumAsize({last'.popped[i] : i \in 1..(k - 1)}),
                                  last'.dva.asize)
            /\ \A a, b \in MruHeld :
                  (QueuePos(mru_queue, a) < QueuePos(mru_queue, b)
                     /\ a \notin DOMAIN mru_map') => b \notin DOMAIN mru_map'
    ]_vars

\* C6 as stated: the order above, and when an admission needs exactly one
\* unit freed, the oldest address held is evicted and every other address
\* held, and the new one, are held afterwards.
C6_EvictionOrder ==
    [][Admits =>
        /\ \A a, b \in MruHeld :
              (QueuePos(mru_queue, a) < QueuePos(mru_queue, b)
                 /\ a \notin DOMAIN mru_map') => b \notin DOMAIN mru_map'
        /\ (Cardinality(MruHeld) >= 2 /\ mru_used + last'.dva.asize = MruSize + 1) =>
              LET A == OldestHeld(mru_queue, MruHeld)
              IN  /\ A \notin DOMAIN mru_map'
                  /\ (MruHeld \ {A}) \cup {last'.dva} \subseteq DOMAIN mru_map'
    ]_vars

\* C13: an address enters the frequency tier only by a re-read that finds it
\* in the recency tier, and every such re-read promotes it; once there it
\* stays in the frequency tier and out of the recency tier through every
\* later read of any address, and a read of it never goes to storage.
C13_OneWayPromotion ==
    [][ /\ MfuHeld \subseteq DOMAIN mfu_map'
        /\ \A a \in MfuHeld : a \notin DOMAIN mru_map'
        /\ \A a \in (DOMAIN mfu_map') \ MfuHeld :
              /\ a \in MruHeld
              /\ last'.dva = a
              /\ last'.kind = "mru_hit"
              /\ ~last'.disk
        /\ (last'.dva \in MruHeld) => (last'.dva \in DOMAIN mfu_map')
        /\ (last'.dva \in MfuHeld) => (last'.kind = "mfu_hit" /\ ~last'.disk)
    ]_vars

\* a promoted address whose queue entry has since been popped by an eviction
\* is read again, from the frequency tier, while other addresses are cached
C13_Witness ==
    /\ last.kind = "mfu_hit"
    /\ ~last.disk
    /\ last.dva \in MfuHeld
    /\ last.dva \notin Queued
    /\ MruHeld # {}

\* the use count of a frequency-tier entry
Freq(map, dva) == map[dva][1]

\* the bytes Reader::read returns for an address
OnDevice(dva) == Reader_read(dva.sector, dva.asize)

\* C18: every successful read returns the bytes Reader::read returns for the
\* address, whether it was a miss, a recency-tier hit or a frequency-tier
\* hit, and both tiers hold those bytes for every address they hold.
C18_CacheTransparent ==
    /\ (last.kind # "none" /\ last.ok) => last.ret = OnDevice(last.dva)
    /\ \A a \in MruHeld : mru_map[a] = OnDevice(a)
    /\ \A a \in MfuHeld : mfu_map[a][2] = OnDevice(a)

\* a frequency-tier hit, after evictions and other promotions, returned the
\* bytes on the device
C18_Witness ==
    /\ last.kind = "mfu_hit"
    /\ last.ok
    /\ last.ret = OnDevice(last.dva)
    /\ last.dva \notin Queued
    /\ Cardinality(MfuHeld) >= 2

\* the entries of a sequence of addresses
Entries(q) == {q[i] : i \in 1..Len(q)}

AdmitsNew == last'.kind = "mfu_admit" /\ last'.dva \notin MfuHeld

\* what C15 says of a call on a tier that holds something: one entry of
\* lowest count is removed, the new address is held with count 2, and every
\* other entry is as it was
AdmitsOverLowest ==
    /\ last'.ok
    /\ \E v \in LowestKeys(mfu_map) :
          /\ last'.popped = <<v>>
          /\ DOMAIN mfu_map' = (MfuHeld \ {v}) \cup {last'.dva}
    /\ Freq(mfu_map', last'.dva) = 2
    /\ \A a \in (DOMAIN mfu_map') \ {last'.dva} : mfu_map'[a] = mfu_map[a]

\* C15 as stated (checked under SpecMfu): from any state of the tier,
\* Mfu::cache_block for a new address removes exactly one entry of lowest use
\* count, none when the tier is empty, then succeeds with the new address
\* held with use count 2, every other entry unchanged.
C15_MfuAdmission ==
    [][AdmitsNew =>
         IF MfuHeld = {}
         THEN /\ last'.ok
              /\ last'.popped = <<>>
              /\ DOMAIN mfu_map' = {last'.dva}
              /\ Freq(mfu_map', last'.dva) = 2
         ELSE AdmitsOverLowest
    ]_vars

\* what the code keeps of C15: the claim for a tier that holds something
C15_MfuAdmissionNonEmpty ==
    [][(AdmitsNew /\ MfuHeld # {}) => AdmitsOverLowest]_vars

\* and on an empty tier every call fails and changes nothing, so
\* Mfu::cache_block can never put the first entry into a tier
C15_EmptyTierFails ==
    [][(AdmitsNew /\ MfuHeld = {}) =>
          /\ ~last'.ok
          /\ last'.ret = "No valid DVA found."
          /\ mfu_map' = mfu_map
          /\ mfu_used' = mfu_used
    ]_vars

\* C14 (checked under SpecFreq): a promotion gives the entry the use count
\* 0; a frequency-tier hit adds one to the count of the entry read, except
\* that a count above 1000 goes back to 0; no other count changes; and every
\* count is in 0..1001.
C14_FrequencyCounter ==
    /\ [](\A a \in MfuHeld : Freq(mfu_map, a) \in 0..1001)
    /\ [][ /\ (last'.kind = "mru_hit") => Freq(mfu_map', last'.dva) = 0
           /\ (last'.kind = "mfu_hit") =>
                 Freq(mfu_map', last'.dva) =
                    IF Freq(mfu_map, last'.dva) > 1000 THEN 0
                    ELSE Freq(mfu_map, last'.dva) + 1
           /\ \A a \in MfuHeld \ {last'.dva} : Freq(mfu_map', a) = Freq(mfu_map, a)
       ]_vars

\* the count has been through 1001 and a hit has set it back to 0
C14_Witness ==
    /\ last.kind = "mfu_hit"
    /\ prev.dva = last.dva
    /\ Freq(mfu_map, last.dva) = 0

(***************************************************************************)
(* Uberblock (uberblock.rs) and Reader::uber (zio.rs).                     *)
(*                                                                         *)
(* A u64 is kept as its 8 bytes, most significant first, where the code    *)
(* swaps them; txg is kept as the number the host reads.                   *)
(***************************************************************************)
\* UBERBLOCK_MAGIC = 0x00bab10c
UBERBLOCK_MAGIC == <<0, 0, 0, 0, 0, 186, 177, 12>>

\* u64::swap_bytes
swap_bytes(u) == [i \in 1..8 |-> u[9 - i]]

magic_little == swap_bytes(UBERBLOCK_MAGIC)

magic_big == UBERBLOCK_MAGIC

\* mem::size_of::<Uberblock>(): five u64 and the packed BlockPtr (128 bytes in
\* the on-disk format; block_ptr.rs itself is not among the sources)
UberblockSize == 168

\* Uberblock::from_bytes; slot names where the bytes came from and stands for
\* the rest of the record
from_bytes(data) ==
    IF data.len >= UberblockSize
    THEN IF data.magic = magic_little
         THEN [ok |-> TRUE, val |-> [magic |-> data.magic, txg |-> data.txg, slot |-> data.slot]]
         ELSE IF data.magic = magic_big
         THEN [ok |-> TRUE, val |-> [magic |-> data.magic, txg |-> data.txg, slot |-> data.slot]]
         ELSE [ok |-> FALSE, val |-> "Error: Invalid uberblock magic number"]
    ELSE [ok |-> FALSE, val |-> "Not enough bytes to read Uberblock."]

\* for i in 0..128
NumSlots == 128

UberSlotsShort == 0..(NumSlots - 2)

UberSlots == 0..(NumSlots - 1)

\* a slot nothing was written to reads as zeroes
BlankSlot == [magic |-> <<0, 0, 0, 0, 0, 0, 0, 0>>, txg |-> 0]

SlotAt(r, i) == IF i \in DOMAIN r THEN r[i] ELSE BlankSlot

\* self.read(256 + i * 2, 2): the 1024 bytes of slot i
UberRead(r, i) ==
    [len |-> 2 * SectorSize, magic |-> SlotAt(r, i).magic, txg |-> SlotAt(r, i).txg,
     slot |-> i]

NotOlder(uberblock, previous) == uberblock.txg >= previous.txg

\* uberblock.txg > previous.txg
Newer(uberblock, previous) == uberblock.txg > previous.txg

None == [some |-> FALSE]
Some(v) == [some |-> TRUE, val |-> v]

\* the body of the loop of Reader::uber for slot i
UberBody(r, acc, i) ==
    LET parsed == from_bytes(UberRead(r, i))
        seen == acc.examined \cup {i}
    IN  IF parsed.ok
        THEN LET newest == IF acc.newest.some
                           THEN Newer(parsed.val, acc.newest.val)
                           ELSE TRUE
             IN  [newest |-> IF newest THEN Some(parsed.val) ELSE acc.newest,
                  examined |-> seen]
        ELSE [newest |-> acc.newest, examined |-> seen]

\* the loop of Reader::uber over the slots lo..hi-1 in ascending order, from
\* the accumulator acc; the range is run as its lower half and then its upper
\* half, which is the same sequence of bodies
RECURSIVE UberLoop(_, _, _, _)
UberLoop(r, acc, lo, hi) ==
    IF hi <= lo THEN acc
    ELSE IF hi = lo + 1 THEN UberBody(r, acc, lo)
    ELSE LET mid == (lo + hi) \div 2
             half == UberLoop(r, acc, lo, mid)
         \* (the test always holds: the lower half has read slot mid-1; it makes
         \* the evaluation finish the lower half before it starts the upper)
         IN  IF mid - 1 \in half.examined THEN UberLoop(r, half, mid, hi) ELSE half

SlotsEnd(slots) == IF slots = {} THEN 0 ELSE 1 + CHOOSE i \in slots : \A j \in slots : j <= i

\* Reader::uber on a ring r
Uber(r) ==
    LET acc == UberLoop(r, [newest |-> None, examined |-> {}], 0, SlotsEnd(UberSlots))
    IN  IF acc.newest.some
        THEN [pc |-> "done", ok |-> TRUE, ret |-> acc.newest.val, examined |-> acc.examined]
        ELSE [pc |-> "done", ok |-> FALSE, ret |-> "Failed to find valid uberblock",
              examined |-> acc.examined]

\* the slots written, the magic numbers and the txg found in them
ProbeTable == <<0, 127, 9, 64, 1, 126>>
ProbeSlots == {ProbeTable[k] : k \in 1..NumProbes}
HalfSwapped == <<0, 0, 0, 0, 12, 177, 186, 0>>
Magics == {magic_big, magic_little, HalfSwapped}
Txgs == {5, 7, 9}
SlotValues == [magic : Magics, txg : Txgs]

Reader_uber ==
    /\ uber_res.pc = "idle"
    /\ uber_res' = Uber(ring)
    /\ UNCHANGED <<ring, arc_vars, blk_vars, lzjb_vars, dev_vars>>

IdleArc == InitArcVars

InitUber ==
    /\ \E S \in SUBSET ProbeSlots : ring \in [S -> SlotValues]
    /\ uber_res = Idle
    /\ IdleArc /\ IdleBlk /\ IdleLzjb /\ IdleDev

NextUber == Reader_uber

SpecUber == InitUber /\ [][NextUber]_vars

(***************************************************************************)
(* Properties of the uberblock scan, checked under SpecUber.               *)
(***************************************************************************)
\* a slot parses as valid: 1024 bytes read, magic in either byte order
ValidMagic(m) == m = UBERBLOCK_MAGIC \/ m = swap_bytes(UBERBLOCK_MAGIC)
ValidSlots == {i \in 0..127 : ValidMagic(SlotAt(ring, i).magic)}
TxgAt(i) == SlotAt(ring, i).txg

\* C5: when some slot is valid, Reader::uber returns the record of a valid
\* slot whose txg is the greatest among the valid slots, the lowest such slot
\* when several share it; a slot of invalid magic is never returned.
C5_UberSelection ==
    (uber_res.pc = "done" /\ ValidSlots # {}) =>
        /\ uber_res.ok
        /\ uber_res.ret.slot \in ValidSlots
        /\ uber_res.ret.txg = TxgAt(uber_res.ret.slot)
        /\ uber_res.ret.magic = SlotAt(ring, uber_res.ret.slot).magic
        /\ \A j \in ValidSlots : TxgAt(j) <= uber_res.ret.txg
        /\ \A j \in ValidSlots : TxgAt(j) = uber_res.ret.txg => uber_res.ret.slot <= j

\* two valid slots share the greatest valid txg and a slot of invalid magic
\* has a greater one
C5_Witness ==
    /\ uber_res.pc = "done"
    /\ uber_res.ok
    /\ \E j \in ValidSlots : j > uber_res.ret.slot /\ TxgAt(j) = uber_res.ret.txg
    /\ \E j \in (0..127) \ ValidSlots : TxgAt(j) > uber_res.ret.txg

\* C10: Reader::uber fails, with the no-valid-uberblock error, exactly when no
\* slot is valid; a slot that does not parse does not end the scan: all 128
\* slots are read whatever the slots before them held.
C10_UberFailure ==
    (uber_res.pc = "done") =>
        /\ (~uber_res.ok) <=> (ValidSlots = {})
        /\ (~uber_res.ok) => uber_res.ret = "Failed to find valid uberblock"
        /\ uber_res.examined = 0..127

\* the scan failed after reading every slot, the first and the last of them
\* written with a magic that is valid in neither byte order
C10_Witness ==
    /\ uber_res.pc = "done"
    /\ ~uber_res.ok
    /\ {0, 127} \subseteq DOMAIN ring
    /\ uber_res.examined = 0..127

\* the scan went past slots that do not parse and returned the one valid slot,
\* at the end of the ring
C10_ScanPastInvalid ==
    /\ uber_res.pc = "done"
    /\ uber_res.ok
    /\ ValidSlots = {127}
    /\ \E j \in DOMAIN ring : j < 127 /\ ~ValidMagic(ring[j].magic)

(***************************************************************************)
(* LZJB (lzjb.rs).                                                         *)
(*                                                                         *)
(* A byte buffer is [len, head]: len bytes, the first Len(head) of them    *)
(* head and the rest zero.  Indices are the code's, from 0.  An index at   *)
(* or past the length of a slice panics; a usize subtraction below zero    *)
(* panics in a build with overflow checks and wraps to a value above every *)
(* index in a build without.                                               *)
(***************************************************************************)
NBBY == 8
MATCH_BITS == 6
MATCH_MIN == 3
MATCH_MAX == 66
OFFSET_MASK == 1023
LEMPEL_SIZE == 1024

RECURSIVE Pow2(_)
Pow2(n) == IF n = 0 THEN 1 ELSE 2 * Pow2(n - 1)

Shl(x, n) == x * Pow2(n)
Shr(x, n) == x \div Pow2(n)
AsU8(x) == x % 256
Min(a, b) == IF a < b THEN a ELSE b

\* x & mask for a mask of the form 2^k - 1
AndMask(x, mask) == x % (mask + 1)

\* x & bit != 0 for a single bit
HasBit(x, bit) == (x \div bit) % 2 = 1

\* x | bit for a single bit
OrBit(x, bit) == IF HasBit(x, bit) THEN x ELSE x + bit

Buf(bytes) == [len |-> Len(bytes), head |-> bytes]
BufAt(b, i) == IF i < Len(b.head) THEN b.head[i + 1] ELSE 0
Zeros(n) == [i \in 1..n |-> 0]
BufBytes(b) == b.head \o Zeros(b.len - Len(b.head))

Panic(st, why) == [st EXCEPT !.pc = "panic", !.why = why]

(***************************************************************************)
(* LzjbEncoder::read                                                       *)
(***************************************************************************)
\* the locals at entry; checks says whether the build checks overflow
EncStart(src, cap, checks) ==
    [pc |-> "run", why |-> "", src |-> src, cap |-> cap, checks |-> checks,
     dst |-> <<>>, src_i |-> 0, dst_i |-> 0, copymap |-> 0,
     copymask |-> Shl(1, NBBY - 1), lempel |-> EmptyMap, ret |-> 0]

LempelAt(l, hp) == IF hp \in DOMAIN l THEN l[hp] ELSE 0

\* dst[i] = byte: at the end of what was written, or over a byte of it
DstStore(dst, i, byte) ==
    IF i = Len(dst) THEN Append(dst, byte) ELSE [dst EXCEPT ![i + 1] = byte]

\* a literal item
EncLiteral(e) ==
    IF e.dst_i >= e.cap THEN Panic(e, "index out of bounds: dst")
    ELSE [e EXCEPT !.dst = DstStore(e.dst, e.dst_i, e.src[e.src_i + 1]),
                   !.src_i = e.src_i + 1,
                   !.dst_i = e.dst_i + 1]

\* the hash of the 3 bytes at src_i, folded into the table
HashAt(src, i) ==
    LET h0 == Shl(src[i + 1], 16) + Shl(src[i + 2], 8) + src[i + 3]
        h1 == h0 + Shr(h0, 9)
        h2 == h1 + Shr(h1, 5)
    IN  AndMask(h2, LEMPEL_SIZE - 1)

\* the match extension: the lengths at which the loop leaves, because the
\* bytes differ or because the index src_i + mlen is out of bounds
MatchStops(src, i, cpy) ==
    { m \in MATCH_MIN..(MATCH_MAX - 1) :
        (i + m >= Len(src)) \/ (src[i + m + 1] # src[cpy + m + 1]) }

\* a copy item for a verified match at cpy
EncCopy(e, offset, cpy, lempel) ==
    LET stops == MatchStops(e.src, e.src_i, cpy)
        mlen == IF stops = {} THEN MATCH_MAX
                ELSE CHOOSE m \in stops : \A k \in stops : m <= k
        flagged == DstStore(e.dst, e.copymap, OrBit(e.dst[e.copymap + 1], e.copymask))
        b0 == AsU8(Shl(mlen - MATCH_MIN, NBBY - MATCH_BITS) + Shr(offset, NBBY))
        b1 == AsU8(offset)
    IN  IF e.src_i + mlen >= Len(e.src) /\ mlen < MATCH_MAX
        THEN Panic(e, "index out of bounds: src")
        ELSE IF e.dst_i + 1 >= e.cap THEN Panic(e, "index out of bounds: dst")
        ELSE [e EXCEPT !.dst = Append(Append(flagged, b0), b1),
                       !.dst_i = e.dst_i + 2,
                       !.src_i = e.src_i + mlen,
                       !.lempel = lempel]

\* src_i > self.src.len() - MATCH_MAX
NearEnd(e) ==
    IF Len(e.src) < MATCH_MAX
    THEN (IF e.checks THEN "overflow" ELSE "no")
    ELSE (IF e.src_i > Len(e.src) - MATCH_MAX THEN "yes" ELSE "no")

\* one item: a literal near the end, else the table lookup and a copy item or
\* a literal
EncItem(e) ==
    LET near == NearEnd(e)
    IN  IF near = "overflow" THEN Panic(e, "attempt to subtract with overflow")
        ELSE IF near = "yes" THEN EncLiteral(e)
        ELSE IF e.src_i + 2 >= Len(e.src) THEN Panic(e, "index out of bounds: src")
        ELSE LET hp == HashAt(e.src, e.src_i)
                 offset == AndMask(e.src_i - LempelAt(e.lempel, hp), OFFSET_MASK)
                 cpy == e.src_i - offset
                 lempel == MapInsert(e.lempel, hp, e.src_i)
                 el == [e EXCEPT !.lempel = lempel]
             IN  IF /\ e.src_i >= offset
                    /\ cpy # e.src_i
                    /\ e.src[e.src_i + 1] = e.src[cpy + 1]
                    /\ e.src[e.src_i + 2] = e.src[cpy + 2]
                    /\ e.src[e.src_i + 3] = e.src[cpy + 3]
                 THEN EncCopy(e, offset, cpy, lempel)
                 ELSE EncLiteral(el)

\* dst_i >= dst.len() - 1 - 2 * NBBY
OutOfRoom(e) ==
    IF e.cap < 1 + 2 * NBBY
    THEN (IF e.checks THEN "overflow" ELSE "no")
    ELSE (IF e.dst_i >= e.cap - 1 - 2 * NBBY THEN "yes" ELSE "no")

StoppedRetConsumed(e) == e.src_i

\* the value returned when the destination runs out of room
StoppedRet(e) == Len(e.src)

\* the start of an iteration: the copy mask moves on, and at the end of a
\* cycle of 8 items a new copy flag byte is placed
EncCycle(e) ==
    LET mask == Shl(e.copymask, 1)
    IN  IF mask # Shl(1, NBBY) THEN [e EXCEPT !.copymask = mask]
        ELSE LET room == OutOfRoom(e)
             IN  IF room = "overflow" THEN Panic(e, "attempt to subtract with overflow")
                 ELSE IF room = "yes" THEN [e EXCEPT !.pc = "stopped", !.ret = StoppedRet(e)]
                 ELSE IF e.dst_i >= e.cap THEN Panic(e, "index out of bounds: dst")
                 ELSE [e EXCEPT !.copymask = 1,
                                !.copymap = e.dst_i,
                                !.dst = DstStore(e.dst, e.dst_i, 0),
                                !.dst_i = e.dst_i + 1]

\* one iteration of the loop of LzjbEncoder::read, or its return
EncIter(e) ==
    IF ~(e.src_i < Len(e.src)) THEN [e EXCEPT !.pc = "done", !.ret = e.dst_i]
    ELSE LET c == EncCycle(e)
         IN  IF c.pc # "run" THEN c ELSE EncItem(c)

(***************************************************************************)
(* LzjbDecoder::read                                                       *)
(***************************************************************************)
NoItem == [kind |-> "none", offset |-> 0, at |-> 0]

\* the locals at entry; src is a byte buffer, cap is dst.len() and dst holds
\* the bytes written so far (the caller's buffer beyond them is zero)
DecStart(src, cap) ==
    [pc |-> "run", why |-> "", src |-> src, cap |-> cap, dst |-> <<>>,
     src_i |-> 0, dst_i |-> 0, copymap |-> 0, copymask |-> Shl(1, NBBY - 1),
     item |-> NoItem, ret |-> 0]

CorruptOffsetOffByOne(dst_i, offset) == dst_i + 1 < offset

\* dst_i < offset
CorruptOffset(dst_i, offset) == dst_i < offset

\* the n bytes the copy loop writes from cpy = dst_i - offset: a byte written
\* by the loop is read again when the ranges overlap, and with offset 0 each
\* byte is read from the place it is written to
CopyBytes(dst, dst_i, offset, n) ==
    [k \in 1..n |-> IF offset = 0 THEN 0 ELSE dst[dst_i - offset + ((k - 1) % offset) + 1]]

\* a copy item
DecCopy(d) ==
    IF d.src_i >= d.src.len \/ d.src_i + 1 >= d.src.len
    THEN Panic(d, "index out of bounds: src")
    ELSE LET b0 == BufAt(d.src, d.src_i)
             b1 == BufAt(d.src, d.src_i + 1)
             mlen == Shr(b0, NBBY - MATCH_BITS) + MATCH_MIN
             offset == AndMask(Shl(b0, NBBY) + b1, OFFSET_MASK)
             it == [kind |-> "match", offset |-> offset, at |-> d.dst_i]
             n == Min(mlen, d.cap - d.dst_i)
         IN  IF CorruptOffset(d.dst_i, offset)
             THEN [d EXCEPT !.pc = "err", !.src_i = d.src_i + 2, !.item = it,
                            !.why = "Failed to decode. The data is likely corrupted."]
             ELSE IF d.dst_i - offset < 0
             THEN [Panic(d, "attempt to subtract with overflow") EXCEPT !.item = it]
             ELSE [d EXCEPT !.src_i = d.src_i + 2,
                            !.item = it,
                            !.dst = d.dst \o CopyBytes(d.dst, d.dst_i, offset, n),
                            !.dst_i = d.dst_i + n]

\* a literal item
DecLiteral(d) ==
    IF d.src_i >= d.src.len THEN Panic(d, "index out of bounds: src")
    ELSE [d EXCEPT !.dst = Append(d.dst, BufAt(d.src, d.src_i)),
                   !.dst_i = d.dst_i + 1,
                   !.src_i = d.src_i + 1,
                   !.item = [kind |-> "literal", offset |-> 0, at |-> d.dst_i]]

\* the start of an iteration: the copy mask moves on, and at the end of a
\* cycle of 8 items the next source byte is the new copy map
DecCycle(d) ==
    LET mask == Shl(d.copymask, 1)
    IN  IF mask # Shl(1, NBBY) THEN [d EXCEPT !.copymask = mask]
        ELSE IF d.src_i >= d.src.len THEN Panic(d, "index out of bounds: src")
        ELSE [d EXCEPT !.copymask = 1,
                       !.copymap = BufAt(d.src, d.src_i),
                       !.src_i = d.src_i + 1]

\* one iteration of the loop of LzjbDecoder::read, or its return
DecIter(d) ==
    IF ~(d.dst_i < d.cap) THEN [d EXCEPT !.pc = "done", !.ret = d.cap]
    ELSE LET c == DecCycle(d)
         IN  IF c.pc # "run" THEN c
             ELSE IF HasBit(c.copymap, c.copymask) THEN DecCopy(c)
             ELSE DecLiteral(c)

DecStep ==
    /\ dec.pc = "run"
    /\ dec' = DecIter(dec)

(***************************************************************************)
(* The codec's specifications.  SpecLzjb compresses an input and then      *)
(* decompresses the result into a buffer of the input's length; SpecDec    *)
(* runs the decoder alone on arbitrary bytes.                              *)
(***************************************************************************)
BoundedSeq(S, n) == UNION {[1..k -> S] : k \in 0..n}

\* w repeated up to n bytes
Cycle(w, n) == [i \in 1..n |-> w[((i - 1) % Len(w)) + 1]]

EncBytes == {97, 98}
ShortInputs == BoundedSeq(EncBytes, MaxShort)
Patterns == BoundedSeq(EncBytes, 3) \ {<<>>}
LongInputs == {Cycle(w, n) : w \in Patterns, n \in MATCH_MAX..(MATCH_MAX + MaxExtra)}

\* the same 3 bytes twice, dist bytes apart, with zeroes between them and a
\* run after them: dist is at the edge of the 10-bit offset
EdgeInput(dist) == <<1, 2, 3>> \o Zeros(dist - 3) \o <<1, 2, 3>> \o Cycle(<<9>>, MATCH_MAX)
EdgeInputs == {EdgeInput(dist) : dist \in {OFFSET_MASK, OFFSET_MASK + 1, OFFSET_MASK + 2}}

\* inputs one byte short of MATCH_MAX, and of a length in the middle
NearInputs == {Cycle(w, n) : w \in Patterns, n \in {MATCH_MAX \div 2, MATCH_MAX - 1}}

EncInputs == ShortInputs \cup NearInputs \cup LongInputs \cup EdgeInputs

\* a destination in which the encoder never runs out of room: every item
\* takes at most one byte more than the source bytes it covers, plus a copy
\* flag byte per 8 items, plus the 1 + 2 * NBBY the encoder keeps free
RoomyCap(src) == Len(src) + Len(src) \div NBBY + 2 + 2 * NBBY

EncCaps(src) == {RoomyCap(src), 2 * NBBY, 1 + 2 * NBBY, 3 * NBBY}

EncStep ==
    /\ enc.pc = "run"
    /\ enc' = EncIter(enc)
    /\ UNCHANGED <<dec, arc_vars, uber_vars, blk_vars, dev_vars>>

\* the caller decodes the bytes the encoder wrote into a buffer of the
\* input's length
DecodeEncoded ==
    /\ enc.pc = "done"
    /\ dec.pc = "idle"
    /\ dec' = DecStart([len |-> enc.ret, head |-> enc.dst], Len(enc.src))
    /\ UNCHANGED <<enc, arc_vars, uber_vars, blk_vars, dev_vars>>

DecodeStep ==
    /\ DecStep
    /\ UNCHANGED <<enc, arc_vars, uber_vars, blk_vars, dev_vars>>

InitLzjb ==
    /\ \E src \in EncInputs : \E cap \in EncCaps(src) : \E checks \in BOOLEAN :
          enc = EncStart(src, cap, checks)
    /\ dec = Idle
    /\ IdleArc /\ IdleUber /\ IdleBlk /\ IdleDev

NextLzjb == EncStep \/ DecodeEncoded \/ DecodeStep

SpecLzjb == InitLzjb /\ [][NextLzjb]_vars

DecBytes == {0, 1, 2, 5}
DecInputs == BoundedSeq(DecBytes, MaxDecLen)

InitDec ==
    /\ \E bytes \in DecInputs : \E cap \in 0..MaxDecCap : dec = DecStart(Buf(bytes), cap)
    /\ enc = Idle
    /\ IdleArc /\ IdleUber /\ IdleBlk /\ IdleDev

NextDec == DecodeStep

SpecDec == InitDec /\ [][NextDec]_vars

(***************************************************************************)
(* Properties of the codec.                                                *)
(***************************************************************************)
Roomy == enc.cap >= RoomyCap(enc.src)

RoundTripOver ==
    \/ enc.pc \in {"panic", "stopped"}
    \/ dec.pc \in {"done", "err", "panic"}

RoundTripRight == enc.pc = "done" /\ dec.pc = "done" /\ dec.dst = enc.src

\* C4: for every input, with a destination large enough for the encoder never
\* to stop early, decoding the encoder's output into a buffer of the input's
\* length yields the input (checked under SpecLzjb).
C4_RoundTrip == (enc.pc # "idle" /\ Roomy /\ RoundTripOver) => RoundTripRight

\* what the code does keep of C4: the round trip of the empty input and of
\* inputs of at least MATCH_MAX bytes
C4_RoundTripLong ==
    (enc.pc # "idle" /\ Roomy /\ RoundTripOver
       /\ (Len(enc.src) = 0 \/ Len(enc.src) >= MATCH_MAX)) => RoundTripRight

\* an input of 1 to MATCH_MAX - 1 bytes never comes back: the encoder panics
C4_ShortPanics ==
    (enc.pc # "idle" /\ Roomy /\ RoundTripOver
       /\ Len(enc.src) \in 1..(MATCH_MAX - 1)) => enc.pc = "panic"

\* the encoder is at the start of a control-byte cycle and its test of the
\* room left succeeds
AtCycleOutOfRoom ==
    /\ enc.pc = "run"
    /\ enc.src_i < Len(enc.src)
    /\ Shl(enc.copymask, 1) = Shl(1, NBBY)
    /\ OutOfRoom(enc) = "yes"

\* the encoder stops there without emitting anything more
StopsEmitting ==
    /\ enc'.pc = "stopped"
    /\ enc'.dst = enc.dst
    /\ enc'.dst_i = enc.dst_i
    /\ enc'.src_i = enc.src_i

\* C17 as stated: when the encoder stops for lack of room it returns the
\* count of input bytes consumed so far, the current source index.
C17_PartialEncode_Original ==
    (enc.pc = "stopped") => enc.ret = enc.src_i

\* C17 as amended: when the test dst_i >= dst.len() - 1 - 2*NBBY succeeds
\* at the start of a cycle the encoder stops emitting and returns the length
\* of the whole input, and it stops in no other way.
C17_PartialEncode ==
    [][ /\ AtCycleOutOfRoom => (StopsEmitting /\ enc'.ret = Len(enc.src))
        /\ (enc.pc = "run" /\ enc'.pc = "stopped") => AtCycleOutOfRoom
    ]_vars

\* the encoder has stopped part of the way through its input and returned
\* the input's length
C17_Witness ==
    /\ enc.pc = "stopped"
    /\ enc.src_i > 0
    /\ enc.src_i < Len(enc.src)
    /\ enc.ret = Len(enc.src)

\* the next iteration of the encoder evaluates dst.len() - 1 - 2*NBBY
EvaluatesRoom ==
    /\ enc.pc = "run"
    /\ enc.src_i < Len(enc.src)
    /\ Shl(enc.copymask, 1) = Shl(1, NBBY)

\* the next iteration of the encoder evaluates self.src.len() - MATCH_MAX
EvaluatesNearEnd ==
    /\ enc.pc = "run"
    /\ enc.src_i < Len(enc.src)
    /\ EncCycle(enc).pc = "run"

\* the encoder has panicked in its index arithmetic or on a read of the
\* source past its end
UnsafeIndex ==
    /\ enc.pc = "panic"
    /\ enc.why \in {"attempt to subtract with overflow", "index out of bounds: src"}

\* every table entry is an index the encoder has been at, so
\* src_i - lempel[hp] is never below zero
TableBehind ==
    \A hp \in DOMAIN enc.lempel : enc.lempel[hp] <= enc.src_i

\* C21 as stated (checked under SpecLzjb): for every input length and every
\* destination length the encoder terminates, each iteration moving on in the
\* source; src.len() - MATCH_MAX, dst.len() - 1 - 2*NBBY and
\* src_i - lempel[hp] never go below zero; and the source is never read at
\* or past its length.
C21_EncoderIndexSafe ==
    /\ [](enc.pc # "idle" =>
            /\ ~UnsafeIndex
            /\ EvaluatesRoom => enc.cap >= 1 + 2 * NBBY
            /\ EvaluatesNearEnd => Len(enc.src) >= MATCH_MAX
            /\ TableBehind)
    /\ [][(enc.pc = "run" /\ enc'.pc = "run") => enc'.src_i > enc.src_i]_vars

\* what the code keeps of C21: with an input of at least MATCH_MAX bytes and
\* a destination of at least 1 + 2*NBBY bytes the encoder never panics, and
\* for every input and destination the table subtraction is safe and every
\* iteration that goes on moves on in the source, so the loop ends
C21_SafeWhenLong ==
    /\ [](enc.pc # "idle" =>
            /\ (enc.pc = "panic") =>
                  (Len(enc.src) < MATCH_MAX \/ enc.cap < 1 + 2 * NBBY)
            /\ TableBehind)
    /\ [][(enc.pc = "run" /\ enc'.pc = "run") => enc'.src_i > enc.src_i]_vars

\* and where it fails: an input of 1 to MATCH_MAX - 1 bytes gets no further
\* than its first item, where the call panics; and in a build that checks
\* overflow a destination under 1 + 2*NBBY bytes serves the empty input only
\* (in a build that does not, the test of the room left never succeeds)
C21_ShortUnderflows ==
    (enc.pc \in {"done", "stopped"}) =>
        /\ (Len(enc.src) \in 1..(MATCH_MAX - 1)) =>
              (enc.pc = "stopped" /\ enc.src_i = 0)
        /\ (enc.cap < 1 + 2 * NBBY /\ enc.checks) => Len(enc.src) = 0
        /\ (enc.cap < 1 + 2 * NBBY) => enc.pc = "done"

\* C7: when the decoder meets a match item whose offset is greater than the
\* output position, it returns the corruption error at that item, and no
\* match has read the output before its start (checked under SpecDec).
C7_CorruptionDetected ==
    (dec.pc # "idle" /\ dec.item.kind = "match") =>
        /\ (dec.item.offset > dec.item.at) =>
              /\ dec.pc = "err"
              /\ dec.why = "Failed to decode. The data is likely corrupted."
              /\ dec.dst_i = dec.item.at
        /\ (dec.pc # "err") => dec.item.at - dec.item.offset >= 0

\* the decoder wrote output, then met a match item pointing before the start
\* of the output and returned the error
C7_Witness ==
    /\ dec.pc = "err"
    /\ dec.item.kind = "match"
    /\ dec.item.at >= 1
    /\ dec.item.offset > dec.item.at

\* an iteration of the decoder's loop that goes on to another: the output
\* cursor has moved on by at least one, a match by its length cut at the
\* capacity, and nothing already written has changed
Advances ==
    /\ dec'.dst_i > dec.dst_i
    /\ dec'.dst_i <= dec.cap
    /\ Len(dec'.dst) = dec'.dst_i
    /\ SubSeq(dec'.dst, 1, dec.dst_i) = dec.dst

\* C20 as stated (checked under SpecDec): for every source and capacity the
\* decoder terminates, each iteration advancing the output cursor by at
\* least one and never past the capacity, and it never indexes the source at
\* or past its length.
C20_DecoderSafety ==
    /\ [](dec.pc # "panic")
    /\ [][(dec.pc = "run" /\ dec.dst_i < dec.cap) =>
             (dec'.pc \in {"run", "err"} /\ (dec'.pc = "run" => Advances))]_vars

\* what the code keeps of C20: the output side.  An iteration that ends
\* neither in the corruption error nor in a panic advances the cursor, within
\* the capacity, so the loop ends after at most dst.len() iterations.
C20_OutputSafe ==
    [][(dec.pc = "run" /\ dec'.pc = "run") => Advances]_vars

\* and the source side fails: every panic of the decoder is an index into
\* the source at or past its length
C20_PanicsPastSource ==
    (dec.pc = "panic") =>
        /\ dec.why = "index out of bounds: src"
        /\ dec.src_i + 1 >= dec.src.len

(***************************************************************************)
(* Reader::read_block (zio.rs).  The call reads the sectors and branches   *)
(* on the compression code; for LZJB the decoder's loop then runs          *)
(* iteration by iteration, and the return step hands back the buffer.      *)
(***************************************************************************)
CompressionKindDecodesRest(code) ==
    IF code = 2 THEN "off" ELSE "lzjb"

CompressionKindOneOff(code) ==
    IF code = 2 \/ code = 1 THEN "off"
    ELSE IF code = 3 THEN "lzjb"
    ELSE "unsupported"

\* the arms of the match on block_ptr.compression()
CompressionKind(code) ==
    IF code = 2 THEN "off"
    ELSE IF code = 1 \/ code = 3 THEN "lzjb"
    ELSE "unsupported"

\* the block pointers read: dvas[0] names one sector of the device
BlockAddrs == { [sector |-> 100 + k, asize |-> n] : k \in 1..Len(StreamTable), n \in 1..2 }
BlockPtrs == [dva : BlockAddrs, compression : 0..MaxComp, lsize : {1}]

\* read_block up to the call of the decoder
ReadBlockCall ==
    /\ blk_res.pc = "idle"
    /\ LET data == Reader_read_dva(bp.dva)
           kind == CompressionKind(bp.compression)
       IN  \/ /\ kind = "off"
              /\ blk_res' = [pc |-> "done", ok |-> TRUE, ret |-> data]
              /\ UNCHANGED dec
           \/ /\ kind = "lzjb"
              /\ blk_res' = [pc |-> "decoding", ok |-> TRUE, ret |-> data]
              /\ dec' = DecStart(data, bp.lsize * SectorSize)
           \/ /\ kind = "unsupported"
              /\ blk_res' = [pc |-> "done", ok |-> FALSE, ret |-> "Error: not enough bytes"]
              /\ UNCHANGED dec
    /\ UNCHANGED <<bp, enc, arc_vars, uber_vars, dev_vars>>

\* LzjbDecoder::new(&data).read(&mut decompressed), an iteration
ReadBlockDecode ==
    /\ blk_res.pc = "decoding"
    /\ DecStep
    /\ UNCHANGED <<bp, blk_res, enc, arc_vars, uber_vars, dev_vars>>

\* the decoder has returned and its result is dropped: Ok(decompressed); a
\* panic of the decoder unwinds through read_block
ReadBlockReturn ==
    /\ blk_res.pc = "decoding"
    /\ dec.pc \in {"done", "err", "panic"}
    /\ blk_res' = IF dec.pc = "panic"
                  THEN [pc |-> "panic", ok |-> FALSE, ret |-> dec.why]
                  ELSE [pc |-> "done", ok |-> TRUE,
                        ret |-> [len |-> bp.lsize * SectorSize, head |-> dec.dst]]
    /\ UNCHANGED <<bp, dec, enc, arc_vars, uber_vars, dev_vars>>

InitBlk ==
    /\ bp \in BlockPtrs
    /\ blk_res = Idle
    /\ enc = Idle /\ dec = Idle
    /\ IdleArc /\ IdleUber /\ IdleDev

NextBlk == ReadBlockCall \/ ReadBlockDecode \/ ReadBlockReturn

SpecBlk == InitBlk /\ [][NextBlk]_vars

(***************************************************************************)
(* Properties of read_block, checked under SpecBlk.                        *)
(***************************************************************************)
Recognized == {1, 2, 3}

\* C8: for a compression code other than 1, 2 and 3, read_block returns the
\* failure of its unsupported arm, and the LZJB decoder is never started.
C8_UnsupportedCompression ==
    (bp.compression \notin Recognized) =>
        /\ dec.pc = "idle"
        /\ blk_res.pc \in {"idle", "done"}
        /\ (blk_res.pc = "done") =>
              (~blk_res.ok /\ blk_res.ret = "Error: not enough bytes")

\* read_block has returned the failure for a code above the recognized ones
C8_Witness ==
    /\ blk_res.pc = "done"
    /\ ~blk_res.ok
    /\ bp.compression > 3
    /\ dec.pc = "idle"

\* what the streams on the device decode to in a buffer of one sector: the
\* first to 512 bytes of 7, the others to nothing but the zeroes the buffer
\* starts with
DecodedSector(dva) ==
    IF dva.sector = 101 THEN Cycle(<<7>>, SectorSize) ELSE Zeros(SectorSize)

\* C16: a read_block that returns has read asize sectors at dvas[0]; for
\* code 2 it returns those bytes as they are; for code 1 and for code 3 alike
\* it returns a buffer of lsize*512 bytes holding what LzjbDecoder::read
\* wrote for those bytes.
C16_BlockDispatch ==
    (blk_res.pc = "done" /\ bp.compression \in Recognized) =>
        /\ blk_res.ok
        /\ (bp.compression = 2) =>
              /\ blk_res.ret = Reader_read(bp.dva.sector, bp.dva.asize)
              /\ dec.pc = "idle"
        /\ (bp.compression \in {1, 3}) =>
              /\ dec.pc \in {"done", "err"}
              /\ dec.src = Reader_read(bp.dva.sector, bp.dva.asize)
              /\ dec.cap = bp.lsize * SectorSize
              /\ blk_res.ret = [len |-> bp.lsize * SectorSize, head |-> dec.dst]
              /\ BufBytes(blk_res.ret) = DecodedSector(bp.dva)

\* code 3 has returned the 512 decoded bytes of the first stream
C16_Witness ==
    /\ blk_res.pc = "done"
    /\ blk_res.ok
    /\ bp.compression = 3
    /\ dec.pc = "done"
    /\ BufBytes(blk_res.ret) = Cycle(<<7>>, SectorSize)

\* C12: when the pointer names an LZJB code and the decoder reports a
\* corruption error for the sectors read, read_block returns a failure and
\* never a decompressed buffer as a success.
C12_CodecErrorPropagates ==
    (blk_res.pc = "done" /\ dec.pc = "err") => ~blk_res.ok

\* what the code does instead: the decoder's Result is dropped, and the
\* buffer of lsize*512 bytes is returned as Ok with whatever the decoder
\* had written before the corrupt item
C12_CodecErrorDropped ==
    (blk_res.pc = "done" /\ dec.pc = "err") =>
        /\ blk_res.ok
        /\ blk_res.ret = [len |-> bp.lsize * SectorSize, head |-> dec.dst]

(***************************************************************************)
(* Reader::read and Reader::write on a device whose seeks, reads and       *)
(* writes can fail (zio.rs).  Both discard the io::Result of the seek and  *)
(* of the transfer.  A sector is modelled by its first byte.               *)
(***************************************************************************)
IoSectors == 0..(NumIoSectors - 1)
IoBytes == {1, 2}

\* self.disk.seek(SeekFrom::Start(sector * 512)): the position moves only
\* when the seek succeeds
SeekTo(pos, sector, seek_ok) == IF seek_ok THEN sector ELSE pos

\* a transfer of one sector at the position takes place when the call
\* succeeds and the position is on the device
Transfers(disk, pos, rw_ok) == rw_ok /\ pos \in DOMAIN disk

\* Reader::read(start, length) for one sector: ret starts as zeroes, is
\* filled by a read that takes place, and is returned whatever happened
Reader_read_dev(disk, pos, start, length, seek_ok, read_ok) ==
    LET p == SeekTo(pos, start, seek_ok)
        moved == Transfers(disk, p, read_ok)
    IN  [ret |-> [len |-> length * SectorSize,
                  head |-> IF moved THEN <<disk[p]>> ELSE <<>>],
         pos |-> IF moved THEN p + length ELSE p,
         disk |-> disk,
         failed |-> ~seek_ok \/ ~read_ok]

\* Reader::write(block, data): returns () whatever happened; a write past
\* the end of the device fails
Reader_write_dev(disk, pos, block, byte, seek_ok, write_ok) ==
    LET p == SeekTo(pos, block, seek_ok)
        moved == Transfers(disk, p, write_ok)
    IN  [ret |-> <<>>,
         pos |-> IF moved THEN p + 1 ELSE p,
         disk |-> IF moved THEN [disk EXCEPT ![p] = byte] ELSE disk,
         failed |-> ~seek_ok \/ ~moved]

\* the call has returned r to its caller: ok says whether the caller got a
\* normal result (a buffer, (), or Ok) rather than an error
IoReturned(op, r, ok, ret) ==
    [pc |-> "returned", disk |-> r.disk, pos |-> r.pos, op |-> op,
     failed |-> r.failed, ok |-> ok, ret |-> ret]

\* Reader::read called directly
IoRead ==
    /\ io.pc # "idle"
    /\ \E start \in IoSectors, seek_ok \in BOOLEAN, read_ok \in BOOLEAN :
         LET r == Reader_read_dev(io.disk, io.pos, start, 1, seek_ok, read_ok)
         IN  io' = IoReturned("read", r, TRUE, r.ret)
    /\ UNCHANGED <<arc_vars, uber_vars, blk_vars, lzjb_vars>>

\* Reader::write called directly
IoWrite ==
    /\ io.pc # "idle"
    /\ \E block \in IoSectors, byte \in IoBytes, seek_ok \in BOOLEAN, write_ok \in BOOLEAN :
         LET r == Reader_write_dev(io.disk, io.pos, block, byte, seek_ok, write_ok)
         IN  io' = IoReturned("write", r, TRUE, r.ret)
    /\ UNCHANGED <<arc_vars, uber_vars, blk_vars, lzjb_vars>>

\* ArCache::new().read(reader, dva) for a one-sector address: a miss, whose
\* block is whatever Reader::read returned
IoArcRead ==
    /\ io.pc # "idle"
    /\ \E start \in IoSectors, seek_ok \in BOOLEAN, read_ok \in BOOLEAN :
         LET r == Reader_read_dev(io.disk, io.pos, start, 1, seek_ok, read_ok)
             c == Mru_cache_block(EmptyMap, <<>>, 0, [sector |-> start, asize |-> 1], r.ret)
         IN  io' = IoReturned("arc_read", r, c.ok, c.ret)
    /\ UNCHANGED <<arc_vars, uber_vars, blk_vars, lzjb_vars>>

\* Reader::read_block for a one-sector pointer with compression off
IoReadBlock ==
    /\ io.pc # "idle"
    /\ \E start \in IoSectors, seek_ok \in BOOLEAN, read_ok \in BOOLEAN :
         LET r == Reader_read_dev(io.disk, io.pos, start, 1, seek_ok, read_ok)
         IN  /\ CompressionKind(2) = "off"
             /\ io' = IoReturned("read_block", r, TRUE, r.ret)
    /\ UNCHANGED <<arc_vars, uber_vars, blk_vars, lzjb_vars>>

InitIo ==
    /\ io = [pc |-> "ready", disk |-> [s \in IoSectors |-> 10 + s], pos |-> 0,
             op |-> "none", failed |-> FALSE, ok |-> TRUE, ret |-> <<>>]
    /\ IdleArc /\ IdleUber /\ IdleBlk /\ IdleLzjb

NextIo == IoRead \/ IoWrite \/ IoArcRead \/ IoReadBlock

SpecIo == InitIo /\ [][NextIo]_vars

(***************************************************************************)
(* Properties of the accessor on a failing device, checked under SpecIo.   *)
(***************************************************************************)
\* C11: whenever a seek, read or write on the device fails during
\* Reader::read or Reader::write, or during an ArCache::read or a
\* Reader::read_block built on them, the caller gets an error result and
\* never a normal one.
C11_IoFailureSurfaced ==
    (io.pc = "returned" /\ io.failed) => ~io.ok

\* what the code does instead: every one of these calls returns a normal
\* result; after a failed read the buffer is all zeroes, and after a failed
\* seek it holds the sector at the old position
C11_IoFailureSwallowed ==
    (io.pc = "returned") =>
        /\ io.ok
        /\ (io.op # "write") => io.ret.len = SectorSize

=============================================================================
